---------------------------- MODULE Spec2Model ----------------------------
(***************************************************************************)
(* A model of the IR -> OpenAPI v3 converter:                              *)
(*   src/src/converters/typeConverter.ts   (types, names, $ref strings)    *)
(*   src/unnamed/part_000                  (security schemes/requirements) *)
(*                                                                         *)
(* The converter is a library of pure functions.  Each function is an      *)
(* operator computed as the code computes it; a call is an action that     *)
(* draws its input from a bounded set and records the outcome.  A thrown   *)
(* Error is the outcome Throw(..); JavaScript strings that the code takes  *)
(* apart (names, property keys) are sequences of one-character strings.    *)
(***************************************************************************)
EXTENDS Integers, Sequences, FiniteSets, TLC

VARIABLES op, arg, result, pending, calls

vars == <<op, arg, result, pending, calls>>

(***************************************************************************)
(* Bounds of the model.                                                    *)
(***************************************************************************)
MaxTokenLen == 2
MaxPathLen == 1
MaxDepth == 2
MaxProps == 2
MaxVariants == 2
MaxEnumValues == 2
MaxSchemes == 2

(***************************************************************************)
(* JavaScript values.                                                      *)
(***************************************************************************)
NULL == "<null>"
UNDEFINED == "<undefined>"

Throw(msg) == [error |-> msg]
IsError(v) == "error" \in DOMAIN v

\* a ?? undefined
OrUndefined(v) == IF v = NULL THEN UNDEFINED ELSE v

(***************************************************************************)
(* Characters.  The alphabet has two lower-case letters, their upper-case  *)
(* forms, three digits and the space.                                      *)
(***************************************************************************)
LowerChars == {"a", "b"}
UpperChars == {"A", "B"}
DigitChars == {"0", "1", "2"}
Chars == LowerChars \cup UpperChars \cup DigitChars \cup {" "}

Class(c) ==
    IF c \in LowerChars THEN "lower"
    ELSE IF c \in UpperChars THEN "upper"
    ELSE IF c \in DigitChars THEN "digit"
    ELSE "break"

ToLower(c) == IF c = "A" THEN "a" ELSE IF c = "B" THEN "b" ELSE c
ToUpper(c) == IF c = "a" THEN "A" ELSE IF c = "b" THEN "B" ELSE c

LowerCase(s) == [i \in 1..Len(s) |-> ToLower(s[i])]

\* _.upperFirst: the first character upper-cased, the rest untouched
UpperFirst(s) == IF s = <<>> THEN s ELSE <<ToUpper(s[1])>> \o Tail(s)

\* _.capitalize: upperFirst(toLower(s))
Capitalize(s) == UpperFirst(LowerCase(s))

\* Array.prototype.join
RECURSIVE Join(_, _)
Join(tokens, sep) ==
    IF tokens = <<>> THEN <<>>
    ELSE IF Len(tokens) = 1 THEN tokens[1]
    ELSE tokens[1] \o sep \o Join(Tail(tokens), sep)

\* the last index j >= i - 1 with s[i..j] all of class cls
RECURSIVE RunEnd(_, _, _)
RunEnd(s, i, cls) ==
    IF i <= Len(s) /\ Class(s[i]) = cls THEN RunEnd(s, i + 1, cls) ELSE i - 1

\* _.words: the end of the word that starts at i (s[i] is no break).
\* A lower-case run, or a digit run, is a word; an upper-case letter
\* followed by lower-case letters starts a word that runs to the end of
\* them; a run of upper-case letters is a word, less its last letter when
\* a lower-case letter follows the run.
WordEnd(s, i) ==
    LET cls == Class(s[i]) IN
    IF cls = "lower" THEN RunEnd(s, i, "lower")
    ELSE IF cls = "digit" THEN RunEnd(s, i, "digit")
    ELSE IF i + 1 <= Len(s) /\ Class(s[i + 1]) = "lower"
         THEN RunEnd(s, i + 1, "lower")
         ELSE LET j == RunEnd(s, i, "upper") IN
              IF j + 1 <= Len(s) /\ Class(s[j + 1]) = "lower" THEN j - 1 ELSE j

RECURSIVE WordsFrom(_, _)
WordsFrom(s, i) ==
    IF i > Len(s) THEN <<>>
    ELSE IF Class(s[i]) = "break" THEN WordsFrom(s, i + 1)
    ELSE LET j == WordEnd(s, i) IN
         <<SubSeq(s, i, j)>> \o WordsFrom(s, j + 1)

Words(s) == WordsFrom(s, 1)

\* _.camelCase: words(s).reduce((r, w, i) => r + (i ? capitalize(w) : w.toLowerCase()), "")
RECURSIVE CamelReduce(_, _, _)
CamelReduce(ws, i, r) ==
    IF i > Len(ws) THEN r
    ELSE CamelReduce(ws, i + 1,
                     r \o (IF i > 1 THEN Capitalize(ws[i]) ELSE LowerCase(ws[i])))

CamelCase(s) == CamelReduce(Words(s), 1, <<>>)

(***************************************************************************)
(* NameResolver.                                                           *)
(***************************************************************************)
RefPrefix ==
    <<"#", "/", "c", "o", "m", "p", "o", "n", "e", "n", "t", "s", "/",
      "s", "c", "h", "e", "m", "a", "s", "/">>

getNameFromDeclaredTypeName(declaredTypeName) ==
    LET nameTokens == Append(declaredTypeName.fernFilepath, declaredTypeName.name)
    IN UpperFirst(CamelCase(Join(nameTokens, <<" ">>)))

\* the reference built from the camel-cased phrase, its first letter left as it is
getReferenceWithoutUpperFirst(declaredTypeName) ==
    RefPrefix \o CamelCase(Join(Append(declaredTypeName.fernFilepath,
                                       declaredTypeName.name), <<" ">>))

getReferenceFromDeclaredTypeName(declaredTypeName) ==
    RefPrefix \o getNameFromDeclaredTypeName(declaredTypeName)

(***************************************************************************)
(* JavaScript objects whose key order is observable (the `properties` of a *)
(* schema): a sequence of entries in own-property order.  Keys that are    *)
(* array indices (canonical decimal strings) come first, in ascending      *)
(* numeric order; every other key follows in the order of its creation.    *)
(* Writing an existing key replaces its value and keeps its place.         *)
(***************************************************************************)
DigitValue(c) == IF c = "0" THEN 0 ELSE IF c = "1" THEN 1 ELSE 2

RECURSIVE ToNumber(_)
ToNumber(key) ==
    IF key = <<>> THEN 0
    ELSE 10 * ToNumber(SubSeq(key, 1, Len(key) - 1)) + DigitValue(key[Len(key)])

IsArrayIndex(key) ==
    /\ key # <<>>
    /\ \A i \in 1..Len(key) : key[i] \in DigitChars
    /\ (key[1] = "0" => Len(key) = 1)

\* whether entry key k1 is enumerated before a new key k2
KeyBefore(k1, k2) ==
    IF IsArrayIndex(k2)
    THEN IsArrayIndex(k1) /\ ToNumber(k1) < ToNumber(k2)
    ELSE TRUE

JsKeys(obj) == [i \in 1..Len(obj) |-> obj[i].key]

JsHas(obj, key) == \E i \in 1..Len(obj) : obj[i].key = key

\* obj[key] = value
JsSet(obj, key, value) ==
    IF JsHas(obj, key)
    THEN [i \in 1..Len(obj) |->
            IF obj[i].key = key THEN [key |-> key, value |-> value] ELSE obj[i]]
    ELSE LET n == Cardinality({i \in 1..Len(obj) : KeyBefore(obj[i].key, key)})
         IN SubSeq(obj, 1, n) \o <<[key |-> key, value |-> value]>>
            \o SubSeq(obj, n + 1, Len(obj))

\* { ...obj, description: d } on a schema object
WithDescription(obj, d) == ("description" :> d) @@ obj

(***************************************************************************)
(* TypeConverter.                                                          *)
(***************************************************************************)
\* a primitive kind outside the table taken for a string
convertPrimitiveTypeDefaulting(primitiveType) ==
    IF primitiveType = "boolean" THEN [type |-> "boolean"]
    ELSE IF primitiveType = "dateTime" THEN [type |-> "string", format |-> "date-time"]
    ELSE IF primitiveType = "double" THEN [type |-> "number", format |-> "double"]
    ELSE IF primitiveType = "integer" THEN [type |-> "integer"]
    ELSE IF primitiveType = "long" THEN [type |-> "integer", format |-> "int64"]
    ELSE IF primitiveType = "uuid" THEN [type |-> "string", format |-> "uuid"]
    ELSE [type |-> "string"]

convertPrimitiveType(primitiveType) ==
    IF primitiveType = "boolean" THEN [type |-> "boolean"]
    ELSE IF primitiveType = "dateTime" THEN [type |-> "string", format |-> "date-time"]
    ELSE IF primitiveType = "double" THEN [type |-> "number", format |-> "double"]
    ELSE IF primitiveType = "integer" THEN [type |-> "integer"]
    ELSE IF primitiveType = "long" THEN [type |-> "integer", format |-> "int64"]
    ELSE IF primitiveType = "string" THEN [type |-> "string"]
    ELSE IF primitiveType = "uuid" THEN [type |-> "string", format |-> "uuid"]
    ELSE Throw("Encountered unknown primitiveType")

RECURSIVE convertTypeReference(_)
RECURSIVE convertContainerType(_)

\* optional marked on the converted type instead of erased
convertContainerTypeNullable(containerType) ==
    IF containerType._type \in {"list", "set"}
    THEN LET items == convertTypeReference(containerType[containerType._type])
         IN IF IsError(items) THEN items
            ELSE [type |-> "array", items |-> items]
    ELSE IF containerType._type = "map"
    THEN LET additionalProperties == convertTypeReference(containerType.valueType)
         IN IF IsError(additionalProperties) THEN additionalProperties
            ELSE [type |-> "object", additionalProperties |-> additionalProperties]
    ELSE IF containerType._type = "optional"
    THEN LET inner == convertTypeReference(containerType.optional)
         IN IF IsError(inner) THEN inner ELSE ("nullable" :> TRUE) @@ inner
    ELSE Throw("Encountered unknown containerType")

convertContainerType(containerType) ==
    IF containerType._type \in {"list", "set"}
    THEN LET items == convertTypeReference(containerType[containerType._type])
         IN IF IsError(items) THEN items
            ELSE [type |-> "array", items |-> items]
    ELSE IF containerType._type = "map"
    THEN LET additionalProperties == convertTypeReference(containerType.valueType)
         IN IF IsError(additionalProperties) THEN additionalProperties
            ELSE [type |-> "object", additionalProperties |-> additionalProperties]
    ELSE IF containerType._type = "optional"
    THEN convertTypeReference(containerType.optional)
    ELSE Throw("Encountered unknown containerType")

convertTypeReference(typeReference) ==
    IF typeReference._type = "container"
    THEN convertContainerType(typeReference.container)
    ELSE IF typeReference._type = "named"
    THEN "$ref" :> getReferenceFromDeclaredTypeName(typeReference)
    ELSE IF typeReference._type = "primitive"
    THEN convertPrimitiveType(typeReference.primitive)
    ELSE IF typeReference._type \in {"unknown", "void"}
    THEN [x \in {} |-> x]
    ELSE Throw("Encountered unknown typeReference")

convertAlias(aliasTypeDeclaration, docs) ==
    LET convertedAliasOf == convertTypeReference(aliasTypeDeclaration.aliasOf)
    IN IF IsError(convertedAliasOf) THEN convertedAliasOf
       ELSE WithDescription(convertedAliasOf, docs)

convertEnum(enumTypeDeclaration, docs) ==
    [type |-> "string",
     enum |-> [i \in 1..Len(enumTypeDeclaration.values) |->
                 enumTypeDeclaration.values[i].value],
     description |-> docs]

isOptionalProperty(objectProperty) ==
    /\ objectProperty.valueType._type = "container"
    /\ objectProperty.valueType.container._type = "optional"

\* the forEach of convertObject, from property i on, with the `properties`
\* and `required` built so far; a throw ends it
RECURSIVE ObjectLoop(_, _, _, _)
ObjectLoop(props, i, properties, required) ==
    IF i > Len(props) THEN [properties |-> properties, required |-> required]
    ELSE LET objectProperty == props[i]
             convertedObjectProperty == convertTypeReference(objectProperty.valueType)
         IN IF IsError(convertedObjectProperty) THEN convertedObjectProperty
            ELSE ObjectLoop(
                    props, i + 1,
                    JsSet(properties, objectProperty.key,
                          WithDescription(convertedObjectProperty,
                                          OrUndefined(objectProperty.docs))),
                    IF isOptionalProperty(objectProperty) THEN required
                    ELSE Append(required, objectProperty.key))

convertObject(objectTypeDeclaration, docs) ==
    LET built == ObjectLoop(objectTypeDeclaration.properties, 1, <<>>, <<>>)
        convertedSchemaObject ==
            [type |-> "object", description |-> docs,
             properties |-> built.properties, required |-> built.required]
        ext == objectTypeDeclaration.extends
    IN IF IsError(built) THEN built
       ELSE IF Len(ext) > 0
       THEN ("allOf" :> [i \in 1..Len(ext) |->
                           "$ref" :> getReferenceFromDeclaredTypeName(ext[i])])
            @@ convertedSchemaObject
       ELSE convertedSchemaObject

\* the variant whose payload is written beside the tag, under "value"
convertSingleUnionTypeKeepingTag(discriminant, singleUnionType) ==
    LET valueType == singleUnionType.valueType
        convertedValueType == convertTypeReference(valueType)
        tag == [type |-> "string", enum |-> <<singleUnionType.discriminantValue>>]
    IN IF IsError(convertedValueType) THEN convertedValueType
       ELSE IF valueType._type = "named"
       THEN [type |-> "object",
             allOf |-> << "$ref" :> getReferenceFromDeclaredTypeName(valueType),
                          [type |-> "object",
                           properties |-> JsSet(<<>>, discriminant, tag)] >>]
       ELSE [type |-> "object",
             properties |-> JsSet(JsSet(<<>>, discriminant, tag),
                                  <<"a">>, convertedValueType)]

\* the callback of convertUnion's map, for one variant
convertSingleUnionType(discriminant, singleUnionType) ==
    LET valueType == singleUnionType.valueType
        convertedValueType == convertTypeReference(valueType)
        tag == [type |-> "string", enum |-> <<singleUnionType.discriminantValue>>]
    IN IF IsError(convertedValueType) THEN convertedValueType
       ELSE IF valueType._type = "named"
       THEN [type |-> "object",
             allOf |-> << "$ref" :> getReferenceFromDeclaredTypeName(valueType),
                          [type |-> "object",
                           properties |-> JsSet(<<>>, discriminant, tag)] >>]
       ELSE [type |-> "object",
             properties |-> JsSet(JsSet(<<>>, discriminant, tag),
                                  discriminant, convertedValueType)]

\* unionTypeDeclaration.types.map(..), from variant i on; a throw ends it
RECURSIVE UnionLoop(_, _, _)
UnionLoop(unionTypeDeclaration, i, oneOfTypes) ==
    IF i > Len(unionTypeDeclaration.types) THEN [oneOfTypes |-> oneOfTypes]
    ELSE LET one == convertSingleUnionType(unionTypeDeclaration.discriminant,
                                           unionTypeDeclaration.types[i])
         IN IF IsError(one) THEN one
            ELSE UnionLoop(unionTypeDeclaration, i + 1, Append(oneOfTypes, one))

convertUnion(unionTypeDeclaration, docs) ==
    LET mapped == UnionLoop(unionTypeDeclaration, 1, <<>>)
    IN IF IsError(mapped) THEN mapped
       ELSE [oneOf |-> mapped.oneOfTypes, description |-> docs]

convertType(typeDeclaration) ==
    LET shape == typeDeclaration.shape
        docs == OrUndefined(typeDeclaration.docs)
        openApiSchema ==
            IF shape._type = "alias" THEN convertAlias(shape, docs)
            ELSE IF shape._type = "enum" THEN convertEnum(shape, docs)
            ELSE IF shape._type = "object" THEN convertObject(shape, docs)
            ELSE IF shape._type = "union" THEN convertUnion(shape, docs)
            ELSE Throw("Encountered unknown type")
    IN IF IsError(openApiSchema) THEN openApiSchema
       ELSE [openApiSchema |-> openApiSchema,
             schemaName |-> getNameFromDeclaredTypeName(typeDeclaration.name)]

(***************************************************************************)
(* AuthConverter.  A function of this file returns Return(v), or throws.   *)
(***************************************************************************)
Return(v) == [value |-> v]

getNameForAuthScheme(authScheme) ==
    IF authScheme._type = "bearer" THEN Return("BearerAuth")
    ELSE IF authScheme._type = "basic" THEN Return("BasicAuth")
    ELSE IF authScheme._type = "header"
    THEN Return(authScheme.name.name.pascalCase.unsafeName \o "Auth")
    ELSE Throw("Unknown auth scheme")

EmptyObject == [k \in {} |-> k]

\* { ...acc, [name]: value }
Spread(acc, name, value) == (name :> value) @@ acc

\* apiAuth.schemes.reduce(..) of the `all` case, from scheme i on
RECURSIVE AllReduce(_, _, _)
AllReduce(schemes, i, acc) ==
    IF i > Len(schemes) THEN Return(acc)
    ELSE LET name == getNameForAuthScheme(schemes[i])
         IN IF IsError(name) THEN name
            ELSE AllReduce(schemes, i + 1, Spread(acc, name.value, <<>>))

\* apiAuth.schemes.map(..) of the `any` case, from scheme i on
RECURSIVE AnyMap(_, _, _)
AnyMap(schemes, i, out) ==
    IF i > Len(schemes) THEN Return(out)
    ELSE LET name == getNameForAuthScheme(schemes[i])
         IN IF IsError(name) THEN name
            ELSE AnyMap(schemes, i + 1, Append(out, Spread(EmptyObject, name.value, <<>>)))

\* the two requirement modes taken for each other
constructEndpointSecuritySwapped(apiAuth) ==
    IF apiAuth.requirement = "any"
    THEN LET one == AllReduce(apiAuth.schemes, 1, EmptyObject)
         IN IF IsError(one) THEN one ELSE Return(<<one.value>>)
    ELSE IF apiAuth.requirement = "all"
    THEN AnyMap(apiAuth.schemes, 1, <<>>)
    ELSE Throw("Unknown auth scheme requiremen")

constructEndpointSecurity(apiAuth) ==
    IF apiAuth.requirement = "all"
    THEN LET one == AllReduce(apiAuth.schemes, 1, EmptyObject)
         IN IF IsError(one) THEN one ELSE Return(<<one.value>>)
    ELSE IF apiAuth.requirement = "any"
    THEN AnyMap(apiAuth.schemes, 1, <<>>)
    ELSE Throw("Unknown auth scheme requiremen")

convertAuthScheme(scheme) ==
    IF scheme._type = "bearer" THEN Return([type |-> "http", scheme |-> "bearer"])
    ELSE IF scheme._type = "basic" THEN Return([type |-> "http", scheme |-> "basic"])
    ELSE IF scheme._type = "header"
    THEN Return([type |-> "apiKey", in |-> "header", name |-> scheme.name.wireValue])
    ELSE Throw("Unknown auth scheme")

\* the for loop of constructSecuritySchemes, from scheme i on
RECURSIVE SchemesLoop(_, _, _)
SchemesLoop(schemes, i, securitySchemes) ==
    IF i > Len(schemes) THEN Return(securitySchemes)
    ELSE LET name == getNameForAuthScheme(schemes[i])
             object == convertAuthScheme(schemes[i])
         IN IF IsError(name) THEN name
            ELSE IF IsError(object) THEN object
            ELSE SchemesLoop(schemes, i + 1,
                             Spread(securitySchemes, name.value, object.value))

constructSecuritySchemes(apiAuth) == SchemesLoop(apiAuth.schemes, 1, EmptyObject)

(***************************************************************************)
(* Inputs of the name resolver: every path of at most MaxPathLen segments  *)
(* and every leaf name, each a non-empty string of at most MaxTokenLen     *)
(* characters.                                                             *)
(***************************************************************************)
Tokens == UNION {[1..n -> Chars] : n \in 1..MaxTokenLen}
Paths == UNION {[1..n -> Tokens] : n \in 0..MaxPathLen}
DeclaredTypeNames == [fernFilepath : Paths, name : Tokens]

(***************************************************************************)
(* Inputs of the type converter.  A tag outside the closed set is "future".*)
(***************************************************************************)
NameA == [fernFilepath |-> << <<"a">> >>, name |-> <<"b">>]
NameB == [fernFilepath |-> << >>, name |-> <<"b", "A">>]
NameC == [fernFilepath |-> << <<"a", "b">> >>, name |-> <<"a">>]
DeclNames == {NameA, NameB, NameC}

Named(d) == [_type |-> "named", fernFilepath |-> d.fernFilepath, name |-> d.name]
Primitive(p) == [_type |-> "primitive", primitive |-> p]
Container(c) == [_type |-> "container", container |-> c]
ListOf(t) == Container([_type |-> "list", list |-> t])
SetOf(t) == Container([_type |-> "set", set |-> t])
OptionalOf(t) == Container([_type |-> "optional", optional |-> t])
MapOf(k, v) == Container([_type |-> "map", keyType |-> k, valueType |-> v])
FutureRef == [_type |-> "future"]

PrimitiveKinds ==
    {"boolean", "dateTime", "double", "integer", "long", "string", "uuid"}

Leaves ==
    {Primitive(p) : p \in PrimitiveKinds \cup {"future"}}
    \cup {Named(d) : d \in DeclNames}
    \cup {[_type |-> "unknown"], [_type |-> "void"], FutureRef}

\* the key types of the maps of the inputs
KeyTypes == {Primitive("string"), FutureRef}

RECURSIVE TypeRefsOfDepth(_)
TypeRefsOfDepth(d) ==
    IF d = 0 THEN Leaves
    ELSE LET S == TypeRefsOfDepth(d - 1)
         IN Leaves
            \cup {ListOf(t) : t \in S} \cup {SetOf(t) : t \in S}
            \cup {OptionalOf(t) : t \in S}
            \cup {MapOf(k, t) : k \in KeyTypes, t \in S}
            \cup {Container([_type |-> "future"])}

TypeRefs == TypeRefsOfDepth(MaxDepth)

\* the value types of the properties and variants of the declarations
ValueTypes ==
    {Primitive("string"), Named(NameA), OptionalOf(Named(NameA)),
     ListOf(OptionalOf(Primitive("string"))), FutureRef}

PropertyKeys == {<<"b">>, <<"2">>, <<"1", "0">>}
Docs == {NULL, "doc"}

SeqsUpTo(S, n) == UNION {[1..k -> S] : k \in 0..n}

ObjectProperties == [key : PropertyKeys, valueType : ValueTypes, docs : Docs]
SingleUnionTypes == [discriminantValue : {"x", "y"}, valueType : ValueTypes]
EnumValues == {[value |-> "x"], [value |-> "y"]}

Shapes ==
    {[_type |-> "alias", aliasOf |-> t] : t \in ValueTypes \cup {MapOf(FutureRef, Named(NameB))}}
    \cup {[_type |-> "enum", values |-> v] : v \in SeqsUpTo(EnumValues, MaxEnumValues)}
    \cup {[_type |-> "object", properties |-> ps, extends |-> e] :
             ps \in SeqsUpTo(ObjectProperties, MaxProps),
             e \in {<<>>, <<NameC, NameA>>}}
    \cup {[_type |-> "union", discriminant |-> <<"b">>, types |-> ts] :
             ts \in SeqsUpTo(SingleUnionTypes, MaxVariants)}
    \cup {[_type |-> "future"]}

\* the declarations behind the declared names: A and B refer to each other,
\* C refers to itself
Declaration(d) ==
    IF d = NameA
    THEN [name |-> NameA, docs |-> "doc",
          shape |-> [_type |-> "object",
                     properties |-> <<[key |-> <<"b">>, valueType |-> Named(NameB),
                                       docs |-> "doc"]>>,
                     extends |-> <<NameC>>]]
    ELSE IF d = NameB
    THEN [name |-> NameB, docs |-> "doc",
          shape |-> [_type |-> "alias", aliasOf |-> ListOf(Named(NameA))]]
    ELSE [name |-> NameC, docs |-> NULL,
          shape |-> [_type |-> "union", discriminant |-> <<"b">>,
                     types |-> <<[discriminantValue |-> "x", valueType |-> Named(NameC)],
                                 [discriminantValue |-> "y",
                                  valueType |-> OptionalOf(Named(NameA))]>>]]

TypeDeclarations ==
    {[name |-> h[1], docs |-> h[2], shape |-> sh] :
        h \in {<<NameA, NULL>>, <<NameB, "doc">>}, sh \in Shapes}
    \cup {Declaration(d) : d \in DeclNames}

(***************************************************************************)
(* Inputs of the auth converter.                                           *)
(***************************************************************************)
Header(unsafeName, wireValue) ==
    [_type |-> "header",
     name |-> [name |-> [pascalCase |-> [unsafeName |-> unsafeName]],
               wireValue |-> wireValue]]

AuthSchemes ==
    {[_type |-> "bearer"], [_type |-> "basic"], Header("Bearer", "X-Token"),
     Header("ApiKey", "X-Api-Key"), [_type |-> "future"]}

ApiAuths ==
    [requirement : {"all", "any", "future"}, schemes : SeqsUpTo(AuthSchemes, MaxSchemes)]

(***************************************************************************)
(* The calls.  The library keeps no state between calls: a call takes an   *)
(* input, and its outcome is what the caller gets.                         *)
(***************************************************************************)
Idle == [idle |-> TRUE]

CallConvertTypeReference ==
    /\ op = "idle"
    /\ \E t \in TypeRefs :
          /\ op' = "convertTypeReference"
          /\ arg' = t
          /\ result' = convertTypeReference(t)
    /\ UNCHANGED <<pending, calls>>

CallConvertType ==
    /\ op = "idle"
    /\ \E d \in TypeDeclarations :
          /\ op' = "convertType"
          /\ arg' = d
          /\ result' = convertType(d)
    /\ UNCHANGED <<pending, calls>>

CallConstructEndpointSecurity ==
    /\ op = "idle"
    /\ \E a \in ApiAuths :
          /\ op' = "constructEndpointSecurity"
          /\ arg' = a
          /\ result' = constructEndpointSecurity(a)
    /\ UNCHANGED <<pending, calls>>

CallConstructSecuritySchemes ==
    /\ op = "idle"
    /\ \E a \in ApiAuths :
          /\ op' = "constructSecuritySchemes"
          /\ arg' = a
          /\ result' = constructSecuritySchemes(a)
    /\ UNCHANGED <<pending, calls>>

CallGetName ==
    /\ op = "idle"
    /\ \E d \in DeclaredTypeNames :
          /\ op' = "getNameFromDeclaredTypeName"
          /\ arg' = d
          /\ result' = getNameFromDeclaredTypeName(d)
    /\ UNCHANGED <<pending, calls>>

CallGetReference ==
    /\ op = "idle"
    /\ \E d \in DeclaredTypeNames :
          /\ op' = "getReferenceFromDeclaredTypeName"
          /\ arg' = d
          /\ result' = getReferenceFromDeclaredTypeName(d)
    /\ UNCHANGED <<pending, calls>>

(***************************************************************************)
(* The recursion of the type converter, one invocation of                  *)
(* convertTypeReference at a time: `pending` holds the type references     *)
(* still to be converted, the one being converted first, and `calls`       *)
(* counts the invocations made for the input `arg`.                        *)
(***************************************************************************)
\* the type references convertType(typeDeclaration) converts, in order
Roots(typeDeclaration) ==
    LET shape == typeDeclaration.shape
    IN IF shape._type = "alias" THEN <<shape.aliasOf>>
       ELSE IF shape._type = "object"
       THEN [i \in 1..Len(shape.properties) |-> shape.properties[i].valueType]
       ELSE IF shape._type = "union"
       THEN [i \in 1..Len(shape.types) |-> shape.types[i].valueType]
       ELSE <<>>

\* a named reference followed into its declaration
CalleesFollowingNamed(typeReference) ==
    IF typeReference._type = "container"
    THEN LET containerType == typeReference.container
         IN IF containerType._type \in {"list", "set", "optional"}
            THEN <<containerType[containerType._type]>>
            ELSE IF containerType._type = "map" THEN <<containerType.valueType>>
            ELSE <<>>
    ELSE IF typeReference._type = "named"
    THEN Roots(Declaration([fernFilepath |-> typeReference.fernFilepath,
                            name |-> typeReference.name]))
    ELSE <<>>

\* the type references convertTypeReference(typeReference) converts in turn
Callees(typeReference) ==
    IF typeReference._type = "container"
    THEN LET containerType == typeReference.container
         IN IF containerType._type \in {"list", "set", "optional"}
            THEN <<containerType[containerType._type]>>
            ELSE IF containerType._type = "map" THEN <<containerType.valueType>>
            ELSE <<>>
    ELSE <<>>

\* whether convertTypeReference(typeReference) throws at typeReference itself
ThrowsAt(typeReference) ==
    IF typeReference._type = "container"
    THEN typeReference.container._type \notin {"list", "set", "map", "optional"}
    ELSE IF typeReference._type = "primitive"
    THEN typeReference.primitive \notin PrimitiveKinds
    ELSE typeReference._type \notin {"named", "unknown", "void"}

BeginConvertTypeReference ==
    /\ op = "idle"
    /\ \E t \in TypeRefs :
          /\ op' = "convertTypeReference"
          /\ arg' = t
          /\ pending' = <<t>>
    /\ calls' = 0
    /\ result' = Idle

\* the declarations converted call by call: docs take no part in the
\* recursion, so the ones without docs, and the declarations behind the
\* declared names
StepDeclarations ==
    {d \in TypeDeclarations :
        \/ d \in {Declaration(n) : n \in DeclNames}
        \/ /\ d.docs = NULL
           /\ d.shape._type = "object" =>
                 \A i \in 1..Len(d.shape.properties) :
                     d.shape.properties[i].docs = NULL}

BeginConvertType ==
    /\ op = "idle"
    /\ \E d \in StepDeclarations :
          /\ op' = "convertType"
          /\ arg' = d
          /\ pending' = Roots(d)
    /\ calls' = 0
    /\ result' = Idle

Step ==
    /\ op # "idle"
    /\ pending # <<>>
    /\ calls' = calls + 1
    /\ IF ThrowsAt(Head(pending))
       THEN /\ pending' = <<>>
            /\ result' = Throw("Encountered unknown")
       ELSE /\ pending' = Callees(Head(pending)) \o Tail(pending)
            /\ UNCHANGED result
    /\ UNCHANGED <<op, arg>>

Done ==
    /\ op # "idle"
    /\ pending = <<>>
    /\ op' = "idle"
    /\ arg' = Idle
    /\ result' = Idle
    /\ calls' = 0
    /\ UNCHANGED pending

Init ==
    /\ op = "idle"
    /\ arg = Idle
    /\ result = Idle
    /\ pending = <<>>
    /\ calls = 0

Next ==
    \/ CallConvertTypeReference
    \/ CallConvertType
    \/ CallConstructEndpointSecurity
    \/ CallConstructSecuritySchemes
    \/ Done

Spec == Init /\ [][Next]_vars

NextName ==
    \/ CallGetName
    \/ CallGetReference
    \/ Done

SpecName == Init /\ [][NextName]_vars

NextSteps ==
    \/ BeginConvertTypeReference
    \/ BeginConvertType
    \/ Step
    \/ Done

\* a call that has begun runs to its end
SpecSteps == Init /\ [][NextSteps]_vars /\ WF_vars(Step) /\ WF_vars(Done)

(***************************************************************************)
(* Properties.                                                             *)
(***************************************************************************)
Thrown == IsError(result)

DeclaredNameOf(typeReference) ==
    [fernFilepath |-> typeReference.fernFilepath, name |-> typeReference.name]

\* the pointer to the schema that convertType files the declaration of d under
PointerTo(d) ==
    "$ref" :> (RefPrefix \o convertType(Declaration(d)).schemaName)

WithoutDescription(schema) ==
    [f \in DOMAIN schema \ {"description"} |-> schema[f]]

\* every named reference of typeReference, at the place of the output `out`
\* that stands for it, is the pointer to its declaration's schema
RECURSIVE NamedArePointers(_, _)
NamedArePointers(typeReference, out) ==
    IF typeReference._type = "named"
    THEN out = PointerTo(DeclaredNameOf(typeReference))
    ELSE IF typeReference._type # "container" THEN TRUE
    ELSE LET c == typeReference.container
         IN IF c._type \in {"list", "set"}
            THEN "items" \in DOMAIN out /\ NamedArePointers(c[c._type], out.items)
            ELSE IF c._type = "map"
            THEN /\ "additionalProperties" \in DOMAIN out
                 /\ NamedArePointers(c.valueType, out.additionalProperties)
            ELSE IF c._type = "optional" THEN NamedArePointers(c.optional, out)
            ELSE TRUE

\* the last property declared with the key
LastWithKey(props, key) ==
    props[CHOOSE i \in 1..Len(props) :
            /\ props[i].key = key
            /\ \A j \in (i + 1)..Len(props) : props[j].key # key]

NamedArePointersInDeclaration(shape, schema) ==
    IF shape._type = "alias"
    THEN NamedArePointers(shape.aliasOf, WithoutDescription(schema))
    ELSE IF shape._type = "object"
    THEN /\ \A i \in 1..Len(schema.properties) :
               NamedArePointers(
                   LastWithKey(shape.properties, schema.properties[i].key).valueType,
                   WithoutDescription(schema.properties[i].value))
         /\ shape.extends # <<>> =>
               /\ "allOf" \in DOMAIN schema
               /\ schema.allOf = [i \in 1..Len(shape.extends) |->
                                    PointerTo(shape.extends[i])]
    ELSE IF shape._type = "union"
    THEN /\ Len(schema.oneOf) = Len(shape.types)
         /\ \A i \in 1..Len(shape.types) :
               IF shape.types[i].valueType._type = "named"
               THEN /\ "allOf" \in DOMAIN schema.oneOf[i]
                    /\ schema.oneOf[i].allOf[1]
                          = PointerTo(DeclaredNameOf(shape.types[i].valueType))
               ELSE /\ "properties" \in DOMAIN schema.oneOf[i]
                    /\ NamedArePointers(shape.types[i].valueType,
                                        schema.oneOf[i].properties[1].value)
    ELSE TRUE

\* C1: a named reference converts to exactly {$ref: "#/components/schemas/" +
\* the schema name convertType gives its declaration}, and so it does wherever
\* it stands in a converted type reference or declaration (under list, set,
\* map, optional, as a property, an extends entry, a union variant): the
\* declaration is never expanded in its place.
C1_NamedIsPointer ==
    /\ (op = "convertTypeReference" /\ ~Thrown) => NamedArePointers(arg, result)
    /\ (op = "convertType" /\ ~Thrown) =>
          NamedArePointersInDeclaration(arg.shape, result.openApiSchema)

C1_Witness ==
    /\ op = "convertType"
    /\ arg = Declaration(NameA)
    /\ ~Thrown
    /\ result.openApiSchema.allOf = <<"$ref" :> (RefPrefix \o <<"A", "b", "A">>)>>
    /\ WithoutDescription(result.openApiSchema.properties[1].value)
          = "$ref" :> (RefPrefix \o <<"B", "A">>)

(***************************************************************************)
(* The schemas of an output: the output and every schema nested in it (the *)
(* values of properties, items, additionalProperties, the members of allOf *)
(* and oneOf).                                                             *)
(***************************************************************************)
RECURSIVE SchemasOf(_)
SchemasOf(schema) ==
    {schema}
    \cup (IF "items" \in DOMAIN schema THEN SchemasOf(schema.items) ELSE {})
    \cup (IF "additionalProperties" \in DOMAIN schema
          THEN SchemasOf(schema.additionalProperties) ELSE {})
    \cup (IF "properties" \in DOMAIN schema
          THEN UNION {SchemasOf(schema.properties[i].value) :
                         i \in 1..Len(schema.properties)}
          ELSE {})
    \cup (IF "allOf" \in DOMAIN schema
          THEN UNION {SchemasOf(schema.allOf[i]) : i \in 1..Len(schema.allOf)}
          ELSE {})
    \cup (IF "oneOf" \in DOMAIN schema
          THEN UNION {SchemasOf(schema.oneOf[i]) : i \in 1..Len(schema.oneOf)}
          ELSE {})

\* the fields a schema carries once serialised: a description of undefined
\* is no field
FieldsOf(schema) ==
    {f \in DOMAIN schema : f = "description" => schema[f] # UNDEFINED}

OutputSchema ==
    IF op = "convertType" THEN result.openApiSchema ELSE result

IsObjectCall == op = "convertType" /\ arg.shape._type = "object" /\ ~Thrown

Range(seq) == {seq[i] : i \in 1..Len(seq)}

\* C2: a key is in `required` iff the value type of the property that the
\* output `properties` holds under that key is not a top-level optional, for
\* every property list, one that declares a key twice included.
C2_RequiredIffNotOptional ==
    IsObjectCall =>
        LET schema == result.openApiSchema
        IN /\ Range(schema.required) \subseteq Range(JsKeys(schema.properties))
           /\ \A key \in Range(JsKeys(schema.properties)) :
                 key \in Range(schema.required)
                    <=> ~isOptionalProperty(LastWithKey(arg.shape.properties, key))

\* C7: every schema of an output is a schema object without $ref or a pointer
\* that holds $ref and nothing else.
C7_PointerOrSchema ==
    (op \in {"convertType", "convertTypeReference"} /\ ~Thrown) =>
        \A schema \in SchemasOf(OutputSchema) :
            "$ref" \in DOMAIN schema => FieldsOf(schema) = {"$ref"}

\* the keys in the order of their first declaration
RECURSIVE FirstOccurrences(_)
FirstOccurrences(keys) ==
    IF keys = <<>> THEN <<>>
    ELSE LET front == SubSeq(keys, 1, Len(keys) - 1)
             last == keys[Len(keys)]
         IN IF last \in Range(front) THEN FirstOccurrences(front)
            ELSE Append(FirstOccurrences(front), last)

DeclaredKeys(props) == [i \in 1..Len(props) |-> props[i].key]

RECURSIVE NotOptional(_)
NotOptional(props) ==
    IF props = <<>> THEN <<>>
    ELSE (IF isOptionalProperty(Head(props)) THEN <<>> ELSE <<Head(props)>>)
         \o NotOptional(Tail(props))

\* C8: declared order is kept: the keys of `properties` and the entries of
\* `required` (optional properties left out) follow the declared property
\* order whatever the keys are, `enum` is the declared value sequence, `oneOf`
\* has one entry per variant and `allOf` one $ref per extends entry, in order.
C8_DeclaredOrderKept ==
    (op = "convertType" /\ ~Thrown) =>
        LET shape == arg.shape
            schema == result.openApiSchema
        IN /\ shape._type = "object" =>
                /\ JsKeys(schema.properties)
                      = FirstOccurrences(DeclaredKeys(shape.properties))
                /\ schema.required = DeclaredKeys(NotOptional(shape.properties))
                /\ shape.extends # <<>> =>
                      schema.allOf = [i \in 1..Len(shape.extends) |->
                                        PointerTo(shape.extends[i])]
           /\ shape._type = "enum" =>
                schema.enum = [i \in 1..Len(shape.values) |-> shape.values[i].value]
           /\ shape._type = "union" => Len(schema.oneOf) = Len(shape.types)

KnownScheme(authScheme) == authScheme._type \in {"bearer", "basic", "header"}

NameOfScheme(authScheme) == getNameForAuthScheme(authScheme).value

\* C5: with schemes of the closed set, in any number and with names that may
\* coincide, `all` gives one requirement object whose keys are the names of
\* all schemes, each with an empty scope list, and `any` gives one object per
\* scheme, in scheme order, the i-th with the i-th scheme's name as its only
\* key and an empty scope list.
C5_EndpointSecurity ==
    (/\ op = "constructEndpointSecurity"
     /\ arg.requirement \in {"all", "any"}
     /\ \A i \in 1..Len(arg.schemes) : KnownScheme(arg.schemes[i])) =>
        /\ ~Thrown
        /\ LET security == result.value
               schemes == arg.schemes
           IN IF arg.requirement = "all"
              THEN /\ Len(security) = 1
                   /\ DOMAIN security[1]
                         = {NameOfScheme(schemes[i]) : i \in 1..Len(schemes)}
                   /\ \A k \in DOMAIN security[1] : security[1][k] = <<>>
              ELSE /\ Len(security) = Len(schemes)
                   /\ \A i \in 1..Len(schemes) :
                         /\ DOMAIN security[i] = {NameOfScheme(schemes[i])}
                         /\ security[i][NameOfScheme(schemes[i])] = <<>>

C5_Witness ==
    /\ op = "constructEndpointSecurity"
    /\ arg.requirement = "all"
    /\ arg.schemes = <<[_type |-> "bearer"], Header("Bearer", "X-Token")>>
    /\ result = Return(<<[BearerAuth |-> <<>>]>>)

\* whether the conversion of typeReference comes to a tag outside the closed
\* set: at typeReference itself, or under a list, set or optional, or in the
\* value type of a map
RECURSIVE ReachesFutureTag(_)
ReachesFutureTag(typeReference) ==
    IF typeReference._type = "container"
    THEN LET c == typeReference.container
         IN IF c._type \in {"list", "set", "optional"}
            THEN ReachesFutureTag(c[c._type])
            ELSE IF c._type = "map" THEN ReachesFutureTag(c.valueType)
            ELSE TRUE
    ELSE IF typeReference._type = "primitive"
    THEN typeReference.primitive \notin PrimitiveKinds
    ELSE typeReference._type \notin {"named", "unknown", "void"}

DeclarationReachesFutureTag(shape) ==
    IF shape._type = "alias" THEN ReachesFutureTag(shape.aliasOf)
    ELSE IF shape._type = "object"
    THEN \E i \in 1..Len(shape.properties) :
            ReachesFutureTag(shape.properties[i].valueType)
    ELSE IF shape._type = "union"
    THEN \E i \in 1..Len(shape.types) : ReachesFutureTag(shape.types[i].valueType)
    ELSE shape._type # "enum"

\* C6: a call that comes to a tag outside the closed set ends in the error
\* and nothing else: no partial output, no default schema, no output with the
\* offending property, variant or scheme left out.
C6_FutureTagThrows ==
    /\ (op = "convertTypeReference" /\ ReachesFutureTag(arg)) => Thrown
    /\ (op = "convertType" /\ DeclarationReachesFutureTag(arg.shape)) => Thrown
    /\ (op = "constructSecuritySchemes"
          /\ \E i \in 1..Len(arg.schemes) : ~KnownScheme(arg.schemes[i])) => Thrown
    /\ (op = "constructEndpointSecurity"
          /\ \/ arg.requirement \notin {"all", "any"}
             \/ \E i \in 1..Len(arg.schemes) : ~KnownScheme(arg.schemes[i])) => Thrown
    /\ Thrown => DOMAIN result = {"error"}

C6_Witness ==
    /\ op = "convertType"
    /\ arg.shape._type = "object"
    /\ Len(arg.shape.properties) = 2
    /\ arg.shape.properties[1].valueType = Primitive("string")
    /\ arg.shape.properties[2].valueType = FutureRef
    /\ result = Throw("Encountered unknown typeReference")

\* C9: optional is erased: optional(T) converts to what T converts to, at any
\* depth (optional of optional, under a list, in the value of a map), and no
\* schema of the output marks optionality.
C9_OptionalErased ==
    op = "convertTypeReference" =>
        /\ (arg._type = "container" /\ arg.container._type = "optional") =>
              result = convertTypeReference(arg.container.optional)
        /\ convertTypeReference(OptionalOf(arg)) = result
        /\ convertTypeReference(OptionalOf(OptionalOf(arg))) = result
        /\ convertTypeReference(ListOf(OptionalOf(arg)))
              = convertTypeReference(ListOf(arg))
        /\ convertTypeReference(MapOf(Primitive("string"), OptionalOf(arg)))
              = convertTypeReference(MapOf(Primitive("string"), arg))
        /\ ~Thrown => \A schema \in SchemasOf(result) :
                         DOMAIN schema \cap {"nullable", "optional", "required"} = {}

C9_Witness ==
    /\ op = "convertTypeReference"
    /\ arg = OptionalOf(OptionalOf(Named(NameA)))
    /\ result = "$ref" :> (RefPrefix \o <<"A", "B">>)

\* C10: convertUnion returns {oneOf, description}; a variant of a named type
\* is {type: "object", allOf: [pointer to the type, {type: "object",
\* properties: {d: {type: "string", enum: [discriminantValue]}}}]}, and a
\* variant of any other type is {type: "object", properties: {d: the converted
\* value type}}, with no discriminant value in it.
C10_UnionVariants ==
    (op = "convertType" /\ arg.shape._type = "union" /\ ~Thrown) =>
        LET schema == result.openApiSchema
            d == arg.shape.discriminant
            types == arg.shape.types
        IN /\ DOMAIN schema = {"oneOf", "description"}
           /\ schema.description = OrUndefined(arg.docs)
           /\ Len(schema.oneOf) = Len(types)
           /\ \A i \in 1..Len(types) :
                 IF types[i].valueType._type = "named"
                 THEN schema.oneOf[i]
                        = [type |-> "object",
                           allOf |->
                             << PointerTo(DeclaredNameOf(types[i].valueType)),
                                [type |-> "object",
                                 properties |->
                                   <<[key |-> d,
                                      value |-> [type |-> "string",
                                                 enum |-> <<types[i].discriminantValue>>]]>>] >>]
                 ELSE /\ schema.oneOf[i]
                           = [type |-> "object",
                              properties |->
                                <<[key |-> d,
                                   value |-> convertTypeReference(types[i].valueType)]>>]
                      /\ \A s \in SchemasOf(schema.oneOf[i]) : "enum" \notin DOMAIN s

C10_Witness ==
    /\ op = "convertType"
    /\ arg = Declaration(NameC)
    /\ ~Thrown
    /\ Len(result.openApiSchema.oneOf) = 2
    /\ DOMAIN result.openApiSchema.oneOf[1] = {"type", "allOf"}
    /\ result.openApiSchema.oneOf[2].properties
          = <<[key |-> <<"b">>, value |-> "$ref" :> (RefPrefix \o <<"A", "B">>)]>>

\* the number of type references in the tree of typeReference
RECURSIVE Size(_)
Size(typeReference) ==
    IF typeReference._type # "container" THEN 1
    ELSE LET c == typeReference.container
         IN IF c._type \in {"list", "set", "optional"} THEN 1 + Size(c[c._type])
            ELSE IF c._type = "map" THEN 1 + Size(c.keyType) + Size(c.valueType)
            ELSE 1

RECURSIVE SizeAll(_)
SizeAll(typeReferences) ==
    IF typeReferences = <<>> THEN 0
    ELSE Size(Head(typeReferences)) + SizeAll(Tail(typeReferences))

\* the type references handed to the call under way
InputRoots == IF op = "convertType" THEN Roots(arg) ELSE <<arg>>

\* C3: a conversion ends, whatever the declarations refer to: the calls made
\* and the type references still to be converted never add up to more than
\* the size of the input's type reference trees, which counts nothing behind
\* a named reference, and every call begun comes to its end.
C3_Terminates ==
    /\ [](op # "idle" => calls + SizeAll(pending) <= SizeAll(InputRoots))
    /\ [][pending # <<>> => calls' = calls + 1 /\ SizeAll(pending') < SizeAll(pending)]_vars
    /\ (op # "idle") ~> (op = "idle")

C3_Witness ==
    /\ op = "convertType"
    /\ arg = Declaration(NameB)
    /\ pending = <<>>
    /\ calls = 2

\* C4: two declared names that differ in their path or in their leaf name get
\* different schema names, and so different $ref strings.
C4_NamesUnique ==
    /\ op = "getNameFromDeclaredTypeName" =>
          \A d \in DeclaredTypeNames :
              d # arg => getNameFromDeclaredTypeName(d) # result
    /\ op = "getReferenceFromDeclaredTypeName" =>
          \A d \in DeclaredTypeNames :
              d # arg => getReferenceFromDeclaredTypeName(d) # result

=============================================================================
